---- MODULE Spec2Model ----
(***************************************************************************)
(* Model of the Telegram keyword scrapers app.py and app_hybrid.py: the    *)
(* "Start Scraping" handler, the message scan with its keyword matcher,    *)
(* and the aggregation of the matches into the output table.               *)
(*                                                                         *)
(* A Python str is modelled as a sequence of characters; a character is a  *)
(* one-token string naming a code point:                                   *)
(*   "b" "B"            U+0062 U+0042    cased Latin letters               *)
(*   "e" "eacute"       U+0065 U+00E9    e, precomposed e with acute       *)
(*   "E" "Eacute"       U+0045 U+00C9    their capitals                    *)
(*   "acute"            U+0301           combining acute accent (Mn)       *)
(*   "sigma" "SIGMA"    U+03C3 U+03A3    Greek small / capital sigma       *)
(*   "fsigma"           U+03C2           Greek small final sigma           *)
(*   "shin" "dot"       U+05E9 U+05C1    Hebrew shin, combining shin dot   *)
(*   "shindot"          U+FB2A           shin with shin dot (presentation  *)
(*                                       form, excluded from composition)  *)
(*   " " "NL" "CR"      U+0020 U+000A U+000D    whitespace                 *)
(*   "LRM" "RLO"        U+200E U+202E    bidi control characters           *)
(*   "emoji"            U+1F600          a character above U+FFFF          *)
(*   "," "@" "/" ...    ASCII punctuation and digits                       *)
(* None and the empty string are both the empty sequence wherever the      *)
(* code only tests truthiness.                                             *)
(***************************************************************************)
EXTENDS Integers, Sequences, FiniteSets, TLC

\* ------------------------------------------------------------------------
\* Bounds of the model
\* ------------------------------------------------------------------------

\* message_limit of a run (the widget allows 100..50000; the scan logic
\* that is modelled here does not depend on its size)
MaxMessages == 3

\* the longest text normalize_text is applied to
MaxTextLen == 4

\* the last reading of the clock of live_scrap.py, in ticks
MaxClock == 4

\* the number of updates Telegram creates for the bot
MaxUpdates == 2

\* ------------------------------------------------------------------------
\* Python str operations
\* ------------------------------------------------------------------------

Whitespace == {" ", "NL", "CR"}

BidiMarks == {"LRM", "RLO"}

\* characters with the Unicode property Cased
Cased == {"b", "B", "e", "E", "eacute", "Eacute", "sigma", "SIGMA", "fsigma"}

\* characters with the Unicode property Case_Ignorable
CaseIgnorable == {"acute", "dot", "LRM", "RLO"}

\* RemoveBidi with a pattern that only has U+200E
RemoveBidiLrmOnly(s) == SelectSeq(s, LAMBDA c : c # "LRM")

\* re.sub(r'[\u200e\u200f\u202a-\u202e]', '', text)
RemoveBidi(s) == SelectSeq(s, LAMBDA c : c \notin BidiMarks)

\* canonical decomposition of one character
Decompose(c) ==
    CASE c = "eacute"  -> <<"e", "acute">>
      [] c = "Eacute"  -> <<"E", "acute">>
      [] c = "shindot" -> <<"shin", "dot">>
      [] OTHER         -> <<c>>

RECURSIVE NFD(_)
\* unicodedata.normalize('NFD', text): every character is replaced by its
\* decomposition (computed by halves, which keeps the evaluation shallow
\* on long texts)
NFD(s) ==
    IF s = <<>> THEN <<>>
    ELSE IF Len(s) = 1 THEN Decompose(s[1])
    ELSE LET h == Len(s) \div 2
         IN  NFD(SubSeq(s, 1, h)) \o NFD(SubSeq(s, h + 1, Len(s)))

\* the primary composite of a starter and a combining mark, "" when there
\* is none (shin + dot has none: U+FB2A is a composition exclusion)
Composite(a, b) ==
    CASE a = "e" /\ b = "acute" -> "eacute"
      [] a = "E" /\ b = "acute" -> "Eacute"
      [] OTHER                  -> ""

\* unicodedata.normalize('NFC', text) of a decomposed text: a starter and
\* the combining mark after it are composed when a primary composite
\* exists
NFC(s) ==
    LET Composes(i) == i >= 1 /\ i < Len(s) /\ Composite(s[i], s[i + 1]) # ""
        composed == [i \in 1..Len(s) |->
                        IF Composes(i) THEN Composite(s[i], s[i + 1])
                        ELSE IF Composes(i - 1) THEN ""
                        ELSE s[i]]
    IN  SelectSeq(composed, LAMBDA c : c # "")

RECURSIVE Split(_)
\* text.split(): the maximal runs of non-whitespace characters
Split(s) ==
    IF s = <<>> THEN <<>>
    ELSE IF Head(s) \in Whitespace THEN Split(Tail(s))
    ELSE LET n == IF \E i \in 1..Len(s) : s[i] \in Whitespace
                  THEN (CHOOSE i \in 1..Len(s) :
                            /\ s[i] \in Whitespace
                            /\ \A j \in 1..(i - 1) : s[j] \notin Whitespace) - 1
                  ELSE Len(s)
         IN  <<SubSeq(s, 1, n)>> \o Split(SubSeq(s, n + 1, Len(s)))

RECURSIVE Join(_, _)
\* sep.join(words)
Join(sep, words) ==
    IF words = <<>> THEN <<>>
    ELSE IF Len(words) = 1 THEN words[1]
    ELSE words[1] \o sep \o Join(sep, Tail(words))

\* normalize_text collapsing the whitespace before it removes the bidi
\* marks
normalize_text_collapse_first(text) ==
    IF text = <<>> THEN <<>>
    ELSE NFC(NFD(RemoveBidi(Join(<<" ">>, Split(text)))))

\* normalize_text(text)
normalize_text(text) ==
    IF text = <<>> THEN <<>>
    ELSE Join(<<" ">>, Split(NFC(NFD(RemoveBidi(text)))))

\* str.lower() of a capital sigma at position i: final sigma when a cased
\* character precedes it and none follows it, case-ignorable characters
\* being skipped on both sides
FinalSigma(s, i) ==
    /\ \E j \in 1..(i - 1) :
          /\ s[j] \in Cased
          /\ \A k \in (j + 1)..(i - 1) : s[k] \in CaseIgnorable
    /\ ~ \E j \in (i + 1)..Len(s) :
          /\ s[j] \in Cased
          /\ \A k \in (i + 1)..(j - 1) : s[k] \in CaseIgnorable

\* str.lower()
Lower(s) ==
    [i \in 1..Len(s) |->
        CASE s[i] = "B"     -> "b"
          [] s[i] = "E"      -> "e"
          [] s[i] = "Eacute" -> "eacute"
          [] s[i] = "SIGMA" -> IF FinalSigma(s, i) THEN "fsigma" ELSE "sigma"
          [] OTHER          -> s[i]]

\* word in text
IsSubstring(word, text) ==
    \E i \in 0..(Len(text) - Len(word)) :
        SubSeq(text, i + 1, i + Len(word)) = word

RECURSIVE Strip(_)
\* k.strip()
Strip(s) ==
    IF s = <<>> THEN <<>>
    ELSE IF Head(s) \in Whitespace THEN Strip(Tail(s))
    ELSE IF s[Len(s)] \in Whitespace THEN Strip(SubSeq(s, 1, Len(s) - 1))
    ELSE s

RECURSIVE SplitComma(_)
\* keywords_input.split(",")
SplitComma(s) ==
    IF \E i \in 1..Len(s) : s[i] = ","
    THEN LET n == CHOOSE i \in 1..Len(s) :
                      s[i] = "," /\ \A j \in 1..(i - 1) : s[j] # ","
         IN  <<SubSeq(s, 1, n - 1)>> \o SplitComma(SubSeq(s, n + 1, Len(s)))
    ELSE <<s>>

\* [f(x) for x in xs]
Map(f(_), xs) == [i \in 1..Len(xs) |-> f(xs[i])]

Digit(d) == <<"0", "1", "2", "3", "4", "5", "6", "7", "8", "9">>[d + 1]

RECURSIVE NatStr(_)
NatStr(n) ==
    IF n < 10 THEN <<Digit(n)>> ELSE NatStr(n \div 10) \o <<Digit(n % 10)>>

\* str(n)
Str(n) == IF n < 0 THEN <<"-">> \o NatStr(0 - n) ELSE NatStr(n)

\* ------------------------------------------------------------------------
\* Python dict: insertion-ordered, a sequence of entries [k, v]
\* ------------------------------------------------------------------------

\* k in d
DictHas(d, k) == \E i \in 1..Len(d) : d[i].k = k

\* DictGet that never finds the key
DictGetMissing(d, k, default) == default

\* d.get(k, default)
DictGet(d, k, default) ==
    IF DictHas(d, k)
    THEN d[CHOOSE i \in 1..Len(d) : d[i].k = k].v
    ELSE default

\* DictSet moving an existing key to the end (delete, then insert)
DictSetMoveToEnd(d, k, v) ==
    Append(SelectSeq(d, LAMBDA e : e.k # k), [k |-> k, v |-> v])

\* d[k] = v: a new key goes to the end, an existing key keeps its place
DictSet(d, k, v) ==
    IF DictHas(d, k)
    THEN [i \in 1..Len(d) |-> IF d[i].k = k THEN [k |-> k, v |-> v] ELSE d[i]]
    ELSE Append(d, [k |-> k, v |-> v])

\* list(d.keys())
DictKeys(d) == [i \in 1..Len(d) |-> d[i].k]

\* ------------------------------------------------------------------------
\* Inputs: widget values, the resolved group, the messages of the source
\* ------------------------------------------------------------------------

GroupLinkA == <<"t", ".", "m", "e", "/", "g">>

\* group_link text input
GroupLinks == {<<>>, GroupLinkA}

\* include keywords text input: "", "b, e", "Be"
KeywordInputs == {<<>>, <<"b", ",", " ", "e">>, <<"B", "e">>}

\* exclude keywords text input: "", the presentation form of shin-with-dot
ExcludeInputs == {<<>>, <<"shindot">>}

\* the entity get_entity resolves: a supergroup id and a basic group id
Groups == {[id |-> 0 - 1005, title |-> <<"G">>],
           [id |-> 987, title |-> <<"G">>]}

UserBob == [id |-> 7, username |-> <<"b", "o", "b">>]

\* a sender without a public username
UserAnon == [id |-> 8, username |-> <<>>]

\* "e b"
TextEB == <<"e", " ", "b">>

\* "B<LRM>e"
TextBe == <<"B", "LRM", "e">>

\* "b " followed by decomposed shin-with-dot
TextBShin == <<"b", " ", "shin", "dot">>

\* "shin"
TextShin == <<"shin">>

\* what iter_messages can yield: msg.text (empty for None), msg.sender
\* (the empty sequence for None, else a one-element sequence), msg.date
Messages ==
    {[text |-> TextEB,    sender |-> <<UserBob>>,  date |-> 1],
     [text |-> TextEB,    sender |-> <<UserBob>>,  date |-> 2],
     [text |-> TextBe,    sender |-> <<UserBob>>,  date |-> 2],
     [text |-> TextBe,    sender |-> <<UserAnon>>, date |-> 1],
     [text |-> TextEB,    sender |-> <<UserAnon>>, date |-> 2],
     [text |-> TextEB,    sender |-> <<>>,         date |-> 1],
     [text |-> TextBShin, sender |-> <<UserBob>>,  date |-> 2],
     [text |-> TextShin,  sender |-> <<UserAnon>>, date |-> 1],
     [text |-> <<>>,      sender |-> <<UserBob>>,  date |-> 1]}

\* include keywords text inputs with Greek letters: "<sigma>", "B<SIGMA>"
GreekKeywordInputs == {<<"sigma">>, <<"B", "SIGMA">>}

\* messages with Greek letters: "b<sigma>", "B<SIGMA>b", "b"
GreekMessages ==
    {[text |-> <<"b", "sigma">>,      sender |-> <<UserBob>>,  date |-> 1],
     [text |-> <<"B", "SIGMA", "b">>, sender |-> <<UserAnon>>, date |-> 2],
     [text |-> <<"b">>,               sender |-> <<UserBob>>,  date |-> 2]}

\* ------------------------------------------------------------------------
\* State
\* ------------------------------------------------------------------------

VARIABLES
    script,               \* which program runs: "app" or "hybrid"
    pc,                   \* "idle", "connect", "scan", "done", "error"
    group_link,
    keywords,
    exclude_keywords,
    case_sensitive,
    allow_duplicates,
    message_limit,
    group,                \* <<>> until get_entity has returned
    consumed,             \* the messages iter_messages has yielded, in order
    message_count,
    matches_found,
    heap,                 \* the message_data list objects, by allocation
    user_message_count,   \* dict user_id -> int
    user_latest_message,  \* dict user_id -> [data (heap ref), date, user_id]
    user_messages,        \* dict user_id -> list of heap refs
    data,                 \* app_hybrid: the list of rows
    final_data,
    columns,
    shown,                \* "none", "table", "no_matches"
    error,                \* what st.error has reported: "none",
                          \* "missing_fields", "scan" (the except around
                          \* the loop of app.py), and from the outer except
                          \* "connect", "stream" or "render" by the place
                          \* that raised
    session_state,        \* app_hybrid: st.session_state
    two_factor,           \* Telegram: the account has a 2FA password
    session_authorized,   \* Telegram: the session file on disk is logged in
    code_sent_to,         \* Telegram: the number the last code was sent to
    password_shown,       \* the 2FA text_input was drawn by the last run
    password,             \* the value the 2FA text_input holds
    notice,               \* what the authentication section shows
    last_failure,         \* how the last Telegram call of the
                          \* authentication section failed, or "none"
    norm_input,           \* the argument of normalize_text
    norm_results,         \* what successive calls of normalize_text
                          \* returned, each applied to the one before
    now,                  \* live_scrap: time.time(), in ticks of 5 seconds
    start_time,           \* start_time of the monitoring loop
    call_start,           \* start_time of the running get_chat_updates
    server_updates,       \* Telegram: the bot's updates not yet confirmed
    posted,               \* Telegram: the number of updates created
    all_messages,
    messages,             \* of the running get_chat_updates
    processed_ids,        \* of the running get_chat_updates
    last_update_id,       \* of the response that is being confirmed
    progress              \* the value last passed to the progress bar,
                          \* as a one-element sequence holding the
                          \* fraction [num, den]; empty before there is a
                          \* bar

vars == <<script, pc, group_link, keywords, exclude_keywords, case_sensitive,
          allow_duplicates, message_limit, group, consumed, message_count,
          matches_found, heap, user_message_count, user_latest_message,
          user_messages, data, final_data, columns, shown, error,
          session_state, two_factor, session_authorized, code_sent_to,
          password_shown, password, notice, last_failure, norm_input,
          norm_results, now, start_time, call_start, server_updates, posted,
          all_messages, messages, processed_ids, last_update_id, progress>>

config == <<group_link, keywords, exclude_keywords, case_sensitive,
            allow_duplicates, message_limit>>

scan_state == <<consumed, message_count, matches_found, heap,
                user_message_count, user_latest_message, user_messages, data>>

output == <<final_data, columns, shown>>

auth_state == <<session_state, two_factor, session_authorized,
                code_sent_to, password_shown, password, notice, last_failure>>

norm_state == <<norm_input, norm_results>>

live_state == <<now, start_time, call_start, server_updates, posted,
                all_messages, messages, processed_ids, last_update_id,
                progress>>

\* ------------------------------------------------------------------------
\* The keyword matcher
\* ------------------------------------------------------------------------

\* app.py: keywords = [k.strip() for k in keywords_input.split(",") if k.strip()]
ParseKeywords(input) ==
    SelectSeq(Map(Strip, SplitComma(input)), LAMBDA k : k # <<>>)

\* app.py: exclude_keywords = [...] if exclude_keywords_input else []
ParseExclude(input) == IF input # <<>> THEN ParseKeywords(input) ELSE <<>>

\* app_hybrid.py: keywords = [k.strip() for k in keywords_input.split(",")]
HybridParseKeywords(input) == Map(Strip, SplitComma(input))

\* app.py: text_to_search
SearchText(text, cs) ==
    IF cs THEN normalize_text(text) ELSE Lower(normalize_text(text))

\* app.py: keywords_to_check
KeywordsToCheck(kws, cs) ==
    LET normalized_keywords == Map(normalize_text, kws)
    IN  IF cs THEN normalized_keywords ELSE Map(Lower, normalized_keywords)

\* app.py: exclude_to_check
ExcludeToCheck(excl, cs) ==
    LET normalized_exclude ==
            IF excl # <<>> THEN Map(normalize_text, excl) ELSE <<>>
    IN  IF cs THEN normalized_exclude ELSE Map(Lower, normalized_exclude)

\* app_hybrid.py: text_to_search
HybridSearchText(text, cs) == IF cs THEN text ELSE Lower(text)

\* app_hybrid.py: keywords_to_check
HybridKeywordsToCheck(kws, cs) == IF cs THEN kws ELSE Map(Lower, kws)

\* any(word in text_to_search for word in keywords_to_check)
IncludeMatch(text_to_search, keywords_to_check) ==
    \E i \in 1..Len(keywords_to_check) :
        IsSubstring(keywords_to_check[i], text_to_search)

\* ExcludeMatch with the exclude list ignored
ExcludeMatchIgnored(text_to_search, exclude_to_check) == FALSE

\* any(word in text_to_search for word in exclude_to_check)
\*     if exclude_to_check else False
ExcludeMatch(text_to_search, exclude_to_check) ==
    IF exclude_to_check # <<>>
    THEN \E i \in 1..Len(exclude_to_check) :
             IsSubstring(exclude_to_check[i], text_to_search)
    ELSE FALSE

\* MatchedKeyword taking the last matching term instead of the first
MatchedKeywordLast(kws, keywords_to_check, text_to_search) ==
    LET hits == {i \in 1..Len(kws) :
                    IsSubstring(keywords_to_check[i], text_to_search)}
    IN  IF hits # {}
        THEN kws[CHOOSE i \in hits : \A j \in hits : i >= j]
        ELSE kws[1]

\* next((orig_kw for orig_kw, norm_kw in zip(keywords, keywords_to_check)
\*       if norm_kw in text_to_search), keywords[0])
MatchedKeyword(kws, keywords_to_check, text_to_search) ==
    LET hits == {i \in 1..Len(kws) :
                    IsSubstring(keywords_to_check[i], text_to_search)}
    IN  IF hits # {}
        THEN kws[CHOOSE i \in hits : \A j \in hits : i <= j]
        ELSE kws[1]

\* ------------------------------------------------------------------------
\* The fields of a row
\* ------------------------------------------------------------------------

PreviewLimit == 100

Ellipsis == <<".", ".", ".">>

\* app.py: msg.sender.username if msg.sender.username else f"ID_{msg.sender.id}"
Username(sender) ==
    IF sender.username # <<>> THEN sender.username
    ELSE <<"I", "D", "_">> \o Str(sender.id)

\* app_hybrid.py: msg.sender.username if msg.sender and msg.sender.username
\*                else "N/A"
HybridUsername(sender) ==
    IF sender # <<>> /\ sender[1].username # <<>> THEN sender[1].username
    ELSE <<"N", "/", "A">>

\* MsgLink cutting three characters off str(group.id) instead of four
MsgLinkKeepsZero(g, link, msg_id) ==
    LET gid == Str(g.id)
    IN  IF Len(gid) >= 4 /\ SubSeq(gid, 1, 4) = <<"-", "1", "0", "0">>
        THEN <<"h", "t", "t", "p", "s", ":", "/", "/", "t", ".", "m", "e",
               "/", "c", "/">> \o SubSeq(gid, 4, Len(gid)) \o <<"/">>
               \o Str(msg_id)
        ELSE link \o <<"/">> \o Str(msg_id)

\* msg_link
MsgLink(g, link, msg_id) ==
    LET gid == Str(g.id)
    IN  IF Len(gid) >= 4 /\ SubSeq(gid, 1, 4) = <<"-", "1", "0", "0">>
        THEN <<"h", "t", "t", "p", "s", ":", "/", "/", "t", ".", "m", "e",
               "/", "c", "/">> \o SubSeq(gid, 5, Len(gid)) \o <<"/">>
               \o Str(msg_id)
        ELSE link \o <<"/">> \o Str(msg_id)

\* msg.date.strftime("%Y-%m-%d %H:%M:%S"): date d is the d-th second of
\* 2024-01-01
MsgDate(d) ==
    <<"2", "0", "2", "4", "-", "0", "1", "-", "0", "1", " ",
      "0", "0", ":", "0", "0", ":">>
    \o (IF d < 10 THEN <<"0">> \o Str(d) ELSE Str(d))

\* app.py: clean_text and preview_text
PreviewText(text) ==
    LET replaced   == [i \in 1..Len(text) |->
                          IF text[i] \in {"NL", "CR"} THEN " " ELSE text[i]]
        clean_text == SelectSeq(replaced, LAMBDA c : c # "emoji")
    IN  IF Len(clean_text) > PreviewLimit
        THEN SubSeq(clean_text, 1, PreviewLimit) \o Ellipsis
        ELSE clean_text

\* app_hybrid.py: msg.text[:100] + "..." if len(msg.text) > 100 else msg.text
HybridPreviewText(text) ==
    IF Len(text) > PreviewLimit
    THEN SubSeq(text, 1, PreviewLimit) \o Ellipsis
    ELSE text

\* app.py: message_data
MessageData(msg, kws, keywords_to_check, text_to_search, g, link) ==
    << <<"@">> \o Username(msg.sender[1]),
       MatchedKeyword(kws, keywords_to_check, text_to_search),
       g.title,
       MsgLink(g, link, msg.id),
       MsgDate(msg.date),
       PreviewText(msg.text),
       0 >>

\* app_hybrid.py: the row appended to data
HybridRow(msg, kws, keywords_to_check, text_to_search, g, link) ==
    << <<"@">> \o HybridUsername(msg.sender),
       MatchedKeyword(kws, keywords_to_check, text_to_search),
       g.title,
       MsgLink(g, link, msg.id),
       MsgDate(msg.date),
       HybridPreviewText(msg.text) >>

\* ------------------------------------------------------------------------
\* The aggregation
\* ------------------------------------------------------------------------

\* IsLatest with the comparison of the dates reversed
IsLatestReversed(latest, user_id, date) ==
    \/ ~ DictHas(latest, user_id)
    \/ date < DictGet(latest, user_id, <<>>).date

\* user_id not in user_latest_message
\*     or msg.date > user_latest_message[user_id]['date']
IsLatest(latest, user_id, date) ==
    \/ ~ DictHas(latest, user_id)
    \/ date > DictGet(latest, user_id, <<>>).date

\* RefsInOrder stopping after the first message of each user
RefsFirstOnly(um) == [i \in 1..Len(um) |-> um[i].v[1]]

RECURSIVE RefsInOrder(_)
\* the heap refs in the order the loops over user_messages.items() and
\* over messages visit them
RefsInOrder(um) ==
    IF um = <<>> THEN <<>> ELSE um[1].v \o RefsInOrder(Tail(um))

\* PatchedHeap leaving the placeholder in place
PatchedHeapNone(h, um, counts) == h

\* msg_data[6] = total_count, on the list objects themselves
PatchedHeap(h, um, counts) ==
    [r \in 1..Len(h) |->
        IF \E i \in 1..Len(um) : \E j \in 1..Len(um[i].v) : um[i].v[j] = r
        THEN LET i == CHOOSE i \in 1..Len(um) :
                          \E j \in 1..Len(um[i].v) : um[i].v[j] = r
             IN  [h[r] EXCEPT ![7] = DictGet(counts, um[i].k, 0)]
        ELSE h[r]]

\* DropLast keeping the whole row
DropNothing(row) == row

\* row[:-1]
DropLast(row) == SubSeq(row, 1, Len(row) - 1)

\* final_data with allow_duplicates
FinalDataAll(h, um, counts) ==
    LET refs == RefsInOrder(um)
    IN  [n \in 1..Len(refs) |-> DropLast(PatchedHeap(h, um, counts)[refs[n]])]

\* final_data without allow_duplicates
FinalDataLatest(h, latest, counts) ==
    [n \in 1..Len(latest) |->
        [h[latest[n].v.data] EXCEPT ![7] = DictGet(counts, latest[n].k, 0)]]

BaseColumns ==
    <<"Username", "Matched Keyword", "Group Name", "Message Link", "Date",
      "Message Preview">>

\* columns
Columns(dup) ==
    IF dup THEN BaseColumns ELSE Append(BaseColumns, "Total Messages")

\* ------------------------------------------------------------------------
\* Operations
\* ------------------------------------------------------------------------

Scripts == {"app", "hybrid"}

\* the page once the session is authenticated: the sidebar reports the
\* session and the scrape form is drawn
Authenticated ==
    /\ session_state = [authenticated |-> TRUE, session_check_done |-> TRUE,
                        awaiting_code |-> FALSE, phone_number |-> <<>>]
    /\ two_factor = FALSE
    /\ session_authorized = TRUE
    /\ code_sent_to = <<>>
    /\ password_shown = FALSE
    /\ password = <<>>
    /\ notice = "none"
    /\ last_failure = "none"

\* normalize_text has not been called
NormIdle ==
    /\ norm_input = <<>>
    /\ norm_results = <<>>

\* live_scrap.py has not started to monitor
LiveIdle ==
    /\ now = 0
    /\ start_time = 0
    /\ call_start = 0
    /\ server_updates = <<>>
    /\ posted = 0
    /\ all_messages = <<>>
    /\ messages = <<>>
    /\ processed_ids = {}
    /\ last_update_id = 0
    /\ progress = <<>>

\* the scrape form before "Start Scraping" is pressed
ScrapeIdle ==
    /\ pc = "idle"
    /\ group_link = <<>>
    /\ keywords = <<>>
    /\ exclude_keywords = <<>>
    /\ case_sensitive = FALSE
    /\ allow_duplicates = TRUE
    /\ message_limit = MaxMessages
    /\ group = <<>>
    /\ consumed = <<>>
    /\ message_count = 0
    /\ matches_found = 0
    /\ heap = <<>>
    /\ user_message_count = <<>>
    /\ user_latest_message = <<>>
    /\ user_messages = <<>>
    /\ data = <<>>
    /\ final_data = <<>>
    /\ columns = <<>>
    /\ shown = "none"
    /\ error = "none"

Init ==
    /\ script \in Scripts
    /\ ScrapeIdle
    /\ Authenticated
    /\ NormIdle
    /\ LiveIdle

\* a rerun of the script starts from fresh locals and an empty page
FreshRun ==
    /\ group' = <<>>
    /\ consumed' = <<>>
    /\ message_count' = 0
    /\ matches_found' = 0
    /\ heap' = <<>>
    /\ user_message_count' = <<>>
    /\ user_latest_message' = <<>>
    /\ user_messages' = <<>>
    /\ data' = <<>>
    /\ final_data' = <<>>
    /\ columns' = <<>>
    /\ shown' = "none"

\* the "Start Scraping" button, up to the first await (one run is followed
\* from the button to its result; a later click starts over from Init)
StartScraping(link, keywords_input, exclude_keywords_input, cs, dup) ==
    /\ pc = "idle"
    /\ script = "hybrid" => exclude_keywords_input = <<>> /\ dup = TRUE
    /\ script = "hybrid" => session_state.authenticated
    /\ FreshRun
    /\ group_link' = link
    /\ case_sensitive' = cs
    /\ allow_duplicates' = dup
    /\ UNCHANGED <<script, message_limit, auth_state, norm_state,
                   live_state>>
    /\ IF link = <<>> \/ keywords_input = <<>>
       THEN /\ error' = "missing_fields"
            /\ pc' = "idle"
            /\ UNCHANGED <<keywords, exclude_keywords>>
       ELSE /\ error' = "none"
            /\ pc' = "connect"
            /\ keywords' = IF script = "app"
                           THEN ParseKeywords(keywords_input)
                           ELSE HybridParseKeywords(keywords_input)
            /\ exclude_keywords' = IF script = "app"
                                   THEN ParseExclude(exclude_keywords_input)
                                   ELSE <<>>

\* client.start() and client.get_entity(group_link) return
ConnectOk(g) ==
    /\ pc = "connect"
    /\ group' = g
    /\ pc' = "scan"
    /\ UNCHANGED <<script, config, scan_state, output, error>>
    /\ UNCHANGED <<auth_state, norm_state, live_state>>

\* client.start() or client.get_entity(group_link) raises: outer except
ConnectFail ==
    /\ pc = "connect"
    /\ pc' = "error"
    /\ error' = "connect"
    /\ UNCHANGED <<script, config, group, scan_state, output>>
    /\ UNCHANGED <<auth_state, norm_state, live_state>>

\* app.py: one iteration of the async for loop
AppScanMessage(m) ==
    /\ script = "app"
    /\ pc = "scan"
    /\ message_count < message_limit
    /\ LET msg == [text |-> m.text, sender |-> m.sender, date |-> m.date,
                   id |-> message_count + 1]
           text_to_search    == SearchText(msg.text, case_sensitive)
           keywords_to_check == KeywordsToCheck(keywords, case_sensitive)
           exclude_to_check  == ExcludeToCheck(exclude_keywords, case_sensitive)
           include_match     == IncludeMatch(text_to_search, keywords_to_check)
           exclude_match     == ExcludeMatch(text_to_search, exclude_to_check)
       IN  /\ consumed' = Append(consumed, msg)
           /\ message_count' = message_count + 1
           /\ IF msg.text # <<>> /\ msg.sender # <<>>
                 /\ include_match /\ ~ exclude_match
              THEN LET user_id == msg.sender[1].id
                       ref     == Len(heap) + 1
                   IN  /\ matches_found' = matches_found + 1
                       /\ user_message_count' =
                              DictSet(user_message_count, user_id,
                                      DictGet(user_message_count, user_id, 0) + 1)
                       /\ heap' = Append(heap,
                              MessageData(msg, keywords, keywords_to_check,
                                          text_to_search, group, group_link))
                       /\ user_messages' =
                              DictSet(user_messages, user_id,
                                      Append(DictGet(user_messages, user_id, <<>>),
                                             ref))
                       /\ user_latest_message' =
                              IF IsLatest(user_latest_message, user_id, msg.date)
                              THEN DictSet(user_latest_message, user_id,
                                           [data |-> ref, date |-> msg.date,
                                            user_id |-> user_id])
                              ELSE user_latest_message
              ELSE UNCHANGED <<matches_found, heap, user_message_count,
                               user_latest_message, user_messages>>
    /\ UNCHANGED <<script, pc, config, group, data, output, error>>
    /\ UNCHANGED <<auth_state, norm_state, live_state>>

\* pd.DataFrame(rows, columns=cols) raises unless every row has one field
\* per column
DataFrameOk(rows, cols) == \A k \in 1..Len(rows) : Len(rows[k]) = Len(cols)

\* ShownFor building the table whatever the rows
ShownAlwaysTable(rows) == "table"

\* if final_data: ... else: st.warning(...)
ShownFor(rows) == IF rows # <<>> THEN "table" ELSE "no_matches"

\* app.py: after the loop: disconnect, build final_data, show the result;
\* err is what the except around the loop has reported
AppFinish(err) ==
    /\ IF allow_duplicates
       THEN /\ heap' = PatchedHeap(heap, user_messages, user_message_count)
            /\ final_data' = FinalDataAll(heap, user_messages,
                                          user_message_count)
       ELSE /\ heap' = heap
            /\ final_data' = FinalDataLatest(heap, user_latest_message,
                                             user_message_count)
    /\ columns' = Columns(allow_duplicates)
    /\ IF ShownFor(final_data') = "table"
          /\ ~ DataFrameOk(final_data', columns')
       THEN /\ pc' = "error"
            /\ error' = "render"
            /\ shown' = "none"
       ELSE /\ pc' = "done"
            /\ error' = err
            /\ shown' = ShownFor(final_data')
    /\ UNCHANGED <<script, config, group, consumed, message_count,
                   matches_found, user_message_count, user_latest_message,
                   user_messages, data>>

\* app_hybrid.py: one iteration of the async for loop
HybridScanMessage(m) ==
    /\ script = "hybrid"
    /\ pc = "scan"
    /\ message_count < message_limit
    /\ LET msg == [text |-> m.text, sender |-> m.sender, date |-> m.date,
                   id |-> message_count + 1]
           text_to_search    == HybridSearchText(msg.text, case_sensitive)
           keywords_to_check == HybridKeywordsToCheck(keywords, case_sensitive)
       IN  /\ consumed' = Append(consumed, msg)
           /\ message_count' = message_count + 1
           /\ IF msg.text # <<>>
                 /\ IncludeMatch(text_to_search, keywords_to_check)
              THEN /\ matches_found' = matches_found + 1
                   /\ data' = Append(data,
                          HybridRow(msg, keywords, keywords_to_check,
                                    text_to_search, group, group_link))
              ELSE UNCHANGED <<matches_found, data>>
    /\ UNCHANGED <<script, pc, config, group, heap, user_message_count,
                   user_latest_message, user_messages, output, error>>
    /\ UNCHANGED <<auth_state, norm_state, live_state>>

\* app_hybrid.py: after the loop: disconnect, show the result; the match
\* rate len(data)/message_count is computed for the table only
HybridFinish ==
    /\ final_data' = data
    /\ columns' = BaseColumns
    /\ IF ShownFor(data) = "table"
          /\ (~ DataFrameOk(data, BaseColumns) \/ message_count = 0)
       THEN /\ pc' = "error"
            /\ error' = "render"
            /\ shown' = "none"
       ELSE /\ pc' = "done"
            /\ error' = "none"
            /\ shown' = ShownFor(data)
    /\ UNCHANGED <<script, config, group, scan_state>>

\* iter_messages is exhausted (the limit is reached or the history ends)
EndOfStream ==
    /\ pc = "scan"
    /\ UNCHANGED <<auth_state, norm_state, live_state>>
    /\ IF script = "app" THEN AppFinish("none") ELSE HybridFinish

\* iter_messages raises: app.py catches it around the loop and goes on to
\* the aggregation, app_hybrid.py only has the outer except
SourceFail ==
    /\ pc = "scan"
    /\ UNCHANGED <<auth_state, norm_state, live_state>>
    /\ IF script = "app"
       THEN AppFinish("scan")
       ELSE /\ error' = "stream"
            /\ pc' = "error"
            /\ UNCHANGED <<script, config, group, scan_state, output>>

Next ==
    \/ \E link \in GroupLinks, kin \in KeywordInputs, exin \in ExcludeInputs,
          cs \in BOOLEAN, dup \in BOOLEAN :
          StartScraping(link, kin, exin, cs, dup)
    \/ \E g \in Groups : ConnectOk(g)
    \/ ConnectFail
    \/ \E m \in Messages : AppScanMessage(m)
    \/ \E m \in Messages : HybridScanMessage(m)
    \/ EndOfStream
    \/ SourceFail

Spec == Init /\ [][Next]_vars

\* the same program run on keywords and messages with Greek letters
NextGreek ==
    \/ \E link \in GroupLinks, kin \in GreekKeywordInputs \cup {<<>>},
          exin \in ExcludeInputs, cs \in BOOLEAN, dup \in BOOLEAN :
          StartScraping(link, kin, exin, cs, dup)
    \/ \E g \in Groups : ConnectOk(g)
    \/ ConnectFail
    \/ \E m \in GreekMessages : AppScanMessage(m)
    \/ \E m \in GreekMessages : HybridScanMessage(m)
    \/ EndOfStream
    \/ SourceFail

SpecGreek == Init /\ [][NextGreek]_vars

\* ------------------------------------------------------------------------
\* The same program on keyword inputs with blank terms, on senders without
\* a username, and on long texts
\* ------------------------------------------------------------------------

\* include keywords text inputs: ",", "b,", a lone U+200E, "b"
EdgeKeywordInputs == {<<",">>, <<"b", ",">>, <<"LRM">>, <<"b">>}

\* exclude keywords text inputs: "", a lone U+200E
EdgeExcludeInputs == {<<>>, <<"LRM">>}

\* entities whose str(id) has and lacks the prefix "-100"
EdgeGroups == {[id |-> 0 - 1005, title |-> <<"G">>],
               [id |-> 0 - 100,  title |-> <<"G">>],
               [id |-> 1005,     title |-> <<"G">>]}

\* a second sender without a public username
UserCarol == [id |-> 9, username |-> <<>>]

\* "b\nb"
TextLines == <<"b", "NL", "b">>

\* a text of 150 characters
TextLong == [i \in 1..150 |-> "b"]

\* a text of 100 characters, the last one above U+FFFF
TextHundred == [i \in 1..99 |-> "b"] \o <<"emoji">>

EdgeMessages ==
    {[text |-> TextLines,   sender |-> <<UserAnon>>,  date |-> 1],
     [text |-> TextShin,    sender |-> <<UserCarol>>, date |-> 2],
     [text |-> TextLong,    sender |-> <<UserBob>>,   date |-> 1],
     [text |-> TextHundred, sender |-> <<UserCarol>>, date |-> 1]}

NextEdge ==
    \/ \E kin \in EdgeKeywordInputs, exin \in EdgeExcludeInputs,
          dup \in BOOLEAN :
          StartScraping(GroupLinkA, kin, exin, FALSE, dup)
    \/ \E g \in EdgeGroups : ConnectOk(g)
    \/ ConnectFail
    \/ \E m \in EdgeMessages : AppScanMessage(m)
    \/ \E m \in EdgeMessages : HybridScanMessage(m)
    \/ EndOfStream
    \/ SourceFail

SpecEdge == Init /\ [][NextEdge]_vars

\* ------------------------------------------------------------------------
\* normalize_text applied to every short text, and to its own result
\* ------------------------------------------------------------------------

\* the characters of the texts: letters, a combining mark and its
\* precomposed form, a composition exclusion, whitespace, bidi marks
NormChars == {"b", "e", "acute", "eacute", "shindot",
              " ", "NL", "LRM", "RLO"}

\* the texts of at most MaxTextLen characters (the empty one stands for ""
\* and None)
NormInputs == UNION {[1..n -> NormChars] : n \in 0..MaxTextLen}

InitNorm ==
    /\ script = "app"
    /\ ScrapeIdle
    /\ Authenticated
    /\ LiveIdle
    /\ norm_input \in NormInputs
    /\ norm_results = <<>>

\* normalize_text(text), then normalize_text of what it returned
NormalizeText ==
    /\ Len(norm_results) < 2
    /\ norm_results' =
           Append(norm_results,
                  normalize_text(IF norm_results = <<>> THEN norm_input
                                 ELSE norm_results[Len(norm_results)]))
    /\ UNCHANGED <<script, pc, config, group, scan_state, output, error,
                   auth_state, norm_input, live_state>>

NextNorm == NormalizeText

SpecNorm == InitNorm /\ [][NextNorm]_vars

\* ------------------------------------------------------------------------
\* app_hybrid.py: the session check and the authentication section. Every
\* interaction with a widget reruns the script from the top: a button
\* returns True only in the run its click started, a widget that a run
\* does not draw loses its value, and the messages of the run before are
\* gone. notice is the last message the section reported.
\* ------------------------------------------------------------------------

PhoneA == <<"+", "9", "2">>

PhoneB == <<"+", "4", "4">>

\* the phone number text input
PhoneInputs == {<<>>, PhoneA, PhoneB}

\* the verification code text input
CodeInputs == {<<>>, <<"1", "2">>}

\* what can be typed into the 2FA password text input
PasswordInputs == {<<"p", "w">>}

\* the script is run for the first time in a browser session
InitAuth ==
    /\ script = "hybrid"
    /\ ScrapeIdle
    /\ NormIdle
    /\ LiveIdle
    /\ session_state = [authenticated |-> FALSE, session_check_done |-> FALSE,
                        awaiting_code |-> FALSE, phone_number |-> <<>>]
    /\ two_factor \in BOOLEAN
    /\ session_authorized \in BOOLEAN
    /\ code_sent_to = <<>>
    /\ password_shown = FALSE
    /\ password = <<>>
    /\ notice = "none"
    /\ last_failure = "none"

scrape_state == <<script, pc, config, group, scan_state, output, error>>

\* a run that draws the page and reaches no handler: the 2FA text input,
\* which only the Verify handler draws, is not drawn
RedrawOnly ==
    /\ password_shown' = FALSE
    /\ password' = <<>>
    /\ notice' = "none"
    /\ last_failure' = "none"
    /\ UNCHANGED <<session_state, session_authorized, code_sent_to>>

\* CheckSession taking the session for logged in whenever the client
\* starts, without is_user_authorized()
CheckSessionUnasked(raised) ==
    /\ ~ session_state.session_check_done
    /\ session_state' =
           [session_state EXCEPT
               !.authenticated = IF ~ raised THEN TRUE ELSE @,
               !.session_check_done = TRUE]
    /\ notice' = IF ~ raised THEN "session_ok" ELSE "no_session"
    /\ last_failure' = IF raised THEN "check_session" ELSE "none"
    /\ password_shown' = FALSE
    /\ password' = <<>>
    /\ UNCHANGED <<two_factor, session_authorized, code_sent_to,
                   scrape_state, norm_state,
                   live_state>>

\* check_session() and what follows it: raised says that the client could
\* not be started or asked (the bare except returns False)
CheckSession(raised) ==
    /\ ~ session_state.session_check_done
    /\ LET authorized == ~ raised /\ session_authorized
       IN  /\ session_state' =
                  [session_state EXCEPT
                      !.authenticated = IF authorized THEN TRUE ELSE @,
                      !.session_check_done = TRUE]
           /\ notice' = IF authorized THEN "session_ok" ELSE "no_session"
    /\ last_failure' = IF raised THEN "check_session" ELSE "none"
    /\ password_shown' = FALSE
    /\ password' = <<>>
    /\ UNCHANGED <<two_factor, session_authorized, code_sent_to,
                   scrape_state, norm_state,
                   live_state>>

\* the "Send Verification Code" button; sent says that client.start(),
\* send_code_request and client.disconnect() returned; when one of them
\* raises, the code may or may not have gone out
SendCode(phone_number, sent) ==
    /\ session_state.session_check_done
    /\ ~ session_state.authenticated
    /\ ~ session_state.awaiting_code
    /\ IF phone_number = <<>>
       THEN RedrawOnly
       ELSE /\ IF sent
               THEN /\ session_state' =
                           [session_state EXCEPT
                               !.phone_number = phone_number,
                               !.awaiting_code = TRUE]
                    /\ code_sent_to' = phone_number
                    /\ notice' = "code_sent"
                    /\ last_failure' = "none"
               ELSE /\ notice' = "send_error"
                    /\ last_failure' = "send_code"
                    /\ code_sent_to' \in {code_sent_to, phone_number}
                    /\ UNCHANGED session_state
            /\ password_shown' = FALSE
            /\ password' = <<>>
            /\ UNCHANGED session_authorized
    /\ UNCHANGED <<two_factor, scrape_state, norm_state,
                   live_state>>

\* the "Verify" button; accepted says that client.start() returned and
\* Telegram took the code (sign_in returns, or asks for the password of an
\* account with 2FA), password_accepted that sign_in(password=...) returned
Verify(verification_code, accepted, password_accepted) ==
    /\ session_state.session_check_done
    /\ ~ session_state.authenticated
    /\ session_state.awaiting_code
    /\ IF verification_code = <<>>
       THEN RedrawOnly
       ELSE IF ~ accepted
       THEN \* except Exception: "error: ..."
            /\ notice' = "verify_error"
            /\ last_failure' = "sign_in"
            /\ password_shown' = FALSE
            /\ password' = <<>>
            /\ UNCHANGED <<session_state, session_authorized, code_sent_to>>
       ELSE IF ~ two_factor
       THEN \* the flag is set before client.disconnect(), which may raise
            /\ session_state' = [session_state EXCEPT !.authenticated = TRUE]
            /\ session_authorized' = TRUE
            /\ \/ notice' = "auth_ok" /\ last_failure' = "none"
               \/ notice' = "verify_error" /\ last_failure' = "disconnect"
            /\ password_shown' = FALSE
            /\ password' = <<>>
            /\ UNCHANGED code_sent_to
       ELSE \* except SessionPasswordNeededError: the text input is drawn
            \* here; it returns what the widget held when the run started,
            \* "" if the run before did not draw it
            /\ password_shown' = TRUE
            /\ password' = password
            /\ UNCHANGED code_sent_to
            /\ IF password # <<>>
               THEN IF password_accepted
                    THEN /\ session_state' =
                                [session_state EXCEPT !.authenticated = TRUE]
                         /\ session_authorized' = TRUE
                         /\ notice' = "auth_ok"
                         /\ last_failure' = "none"
                    ELSE \* raised inside the except clause: not caught
                         /\ notice' = "exception"
                         /\ last_failure' = "sign_in"
                         /\ UNCHANGED <<session_state, session_authorized>>
               ELSE /\ notice' = "need_password"
                    /\ last_failure' = "none"
                    /\ UNCHANGED <<session_state, session_authorized>>
    /\ UNCHANGED <<two_factor, scrape_state, norm_state,
                   live_state>>

\* the user types into the 2FA password text input: the script is rerun
\* with no button pressed, so the Verify handler, and with it the text
\* input, is not reached
EnterPassword(text) ==
    /\ password_shown
    /\ text # <<>>
    /\ RedrawOnly
    /\ UNCHANGED <<two_factor, scrape_state, norm_state,
                   live_state>>

\* the "Resend Code" button
ResendCode ==
    /\ session_state.session_check_done
    /\ ~ session_state.authenticated
    /\ session_state.awaiting_code
    /\ session_state' = [session_state EXCEPT !.awaiting_code = FALSE]
    /\ password_shown' = FALSE
    /\ password' = <<>>
    /\ notice' = "none"
    /\ last_failure' = "none"
    /\ UNCHANGED <<two_factor, session_authorized, code_sent_to,
                   scrape_state, norm_state,
                   live_state>>

\* the "Logout" button of the sidebar (pressed before a scrape is started:
\* one scrape is followed from the button to its result)
Logout ==
    /\ session_state.authenticated
    /\ pc = "idle"
    /\ session_state' = [authenticated |-> FALSE, session_check_done |-> FALSE,
                         awaiting_code |-> FALSE, phone_number |-> <<>>]
    /\ session_authorized' = FALSE
    /\ password_shown' = FALSE
    /\ password' = <<>>
    /\ notice' = "logged_out"
    /\ last_failure' = "none"
    /\ UNCHANGED <<two_factor, code_sent_to, scrape_state, norm_state,
                   live_state>>

NextAuth ==
    \/ \E raised \in BOOLEAN : CheckSession(raised)
    \/ \E phone_number \in PhoneInputs, sent \in BOOLEAN :
          SendCode(phone_number, sent)
    \/ \E verification_code \in CodeInputs, accepted \in BOOLEAN,
          password_accepted \in BOOLEAN :
          Verify(verification_code, accepted, password_accepted)
    \/ \E text \in PasswordInputs : EnterPassword(text)
    \/ ResendCode
    \/ Logout
    \/ \E kin \in GreekKeywordInputs, cs \in BOOLEAN :
          StartScraping(GroupLinkA, kin, <<>>, cs, TRUE)
    \/ \E g \in Groups : ConnectOk(g)
    \/ ConnectFail
    \/ \E m \in GreekMessages : HybridScanMessage(m)
    \/ EndOfStream
    \/ SourceFail

SpecAuth == InitAuth /\ [][NextAuth]_vars

\* the session check runs by itself, and the user goes on with the
\* sign-in: whenever a step of the flow is there it is taken in the end,
\* and Telegram then sends the code, takes the code, and takes the
\* password whenever it is submitted
SpecAuthFair ==
    /\ SpecAuth
    /\ WF_vars(\E raised \in BOOLEAN : CheckSession(raised))
    /\ SF_vars(\E phone_number \in PhoneInputs \ {<<>>} :
                  SendCode(phone_number, TRUE))
    /\ SF_vars(\E verification_code \in CodeInputs \ {<<>>} :
                  Verify(verification_code, TRUE, TRUE))
    /\ SF_vars(\E text \in PasswordInputs : EnterPassword(text))

\* ------------------------------------------------------------------------
\* live_scrap.py: the "Start Scraping" handler, the monitoring loop and
\* get_chat_updates. Time is counted in ticks of 5 seconds; it passes
\* between any two steps of the loops.
\* ------------------------------------------------------------------------

\* monitoring_time: 10 seconds, the least the widget allows
MonitoringTime == 2

\* get_chat_updates(chat_id, timeout=5)
PollTimeout == 1

\* what getChat returns for the group
LiveChat == [id |-> 0 - 1005, title |-> <<"G">>]

\* the id of another chat the bot is a member of
OtherChatId == 0 - 1006

\* update['message'] of the updates Telegram can create: text is empty
\* when the message has no 'text' key, from holds the sender
LiveUpdates ==
    {[chat |-> LiveChat.id, text |-> <<"b">>, from |-> <<UserBob>>],
     [chat |-> LiveChat.id, text |-> <<"e">>, from |-> <<UserAnon>>],
     [chat |-> LiveChat.id, text |-> <<>>,    from |-> <<UserBob>>],
     [chat |-> OtherChatId, text |-> <<"b">>, from |-> <<UserBob>>]}

\* include keywords text inputs of live_scrap.py: "", "b"
LiveKeywordInputs == {<<>>, <<"b">>}

InitLive ==
    /\ script = "live"
    /\ ScrapeIdle
    /\ Authenticated
    /\ NormIdle
    /\ LiveIdle

live_unused == <<exclude_keywords, allow_duplicates, message_limit, consumed,
                 message_count, heap, user_message_count, user_latest_message,
                 user_messages, auth_state, norm_state>>

\* the "Start Scraping" button of live_scrap.py, up to join_group
LiveStart(link, keywords_input, cs) ==
    /\ script = "live"
    /\ pc = "idle"
    /\ group_link' = link
    /\ case_sensitive' = cs
    /\ IF link = <<>> \/ keywords_input = <<>>
       THEN /\ error' = "missing_fields"
            /\ pc' = "idle"
            /\ UNCHANGED keywords
       ELSE /\ error' = "none"
            /\ pc' = "connect"
            /\ keywords' = HybridParseKeywords(keywords_input)
    /\ UNCHANGED <<script, group, matches_found, data, output, live_unused,
                   live_state>>

\* join_group returns (True, chat_info); the progress bar is created and
\* start_time is read
JoinOk ==
    /\ script = "live"
    /\ pc = "connect"
    /\ group' = LiveChat
    /\ progress' = <<[num |-> 0, den |-> 1]>>
    /\ start_time' = now
    /\ all_messages' = <<>>
    /\ matches_found' = 0
    /\ pc' = "monitor"
    /\ UNCHANGED <<script, config, data, output, error, consumed,
                   message_count, heap, user_message_count,
                   user_latest_message, user_messages, auth_state, norm_state,
                   now, call_start, server_updates, posted, messages,
                   processed_ids, last_update_id>>

\* join_group returns (False, reason): a status other than 200 or an
\* exception of the request
JoinFail ==
    /\ script = "live"
    /\ pc = "connect"
    /\ pc' = "error"
    /\ error' = "connect"
    /\ UNCHANGED <<script, config, group, scan_state, output, auth_state,
                   norm_state, live_state>>

\* text_to_search and keywords_to_check of live_scrap.py, and the test
\* any(word in text_to_search for word in keywords_to_check)
LiveMatch(text) ==
    IncludeMatch(HybridSearchText(text, case_sensitive),
                 HybridKeywordsToCheck(keywords, case_sensitive))

\* the row live_scrap.py appends to data for a matching message
LiveRow(msg) ==
    << <<"@">> \o (IF msg.username # <<>> THEN msg.username
                   ELSE <<"N", "/", "A">>),
       MatchedKeyword(keywords,
                      HybridKeywordsToCheck(keywords, case_sensitive),
                      HybridSearchText(msg.text, case_sensitive)),
       group.title,
       <<"M", "e", "s", "s", "a", "g", "e", " ", "I", "D", ":", " ">>
           \o Str(msg.message_id),
       MsgDate(msg.date),
       HybridPreviewText(msg.text) >>

RECURSIVE LiveRows(_)
\* data after the loop over all_messages
LiveRows(msgs) ==
    IF msgs = <<>> THEN <<>>
    ELSE LiveRows(SubSeq(msgs, 1, Len(msgs) - 1))
         \o (IF LiveMatch(msgs[Len(msgs)].text)
             THEN <<LiveRow(msgs[Len(msgs)])>> ELSE <<>>)

\* the condition of the monitoring loop; when it fails: progress 1.0, the
\* rows are built from all_messages and shown
MonitorCheck ==
    /\ script = "live"
    /\ pc = "monitor"
    /\ IF now - start_time < MonitoringTime
       THEN /\ pc' = "progress"
            /\ UNCHANGED <<data, output, progress>>
       ELSE /\ progress' = <<[num |-> 1, den |-> 1]>>
            /\ data' = LiveRows(all_messages)
            /\ final_data' = data'
            /\ columns' = <<"User name", "Word", "Group",
                            "Link to last message", "Date", "Message Preview">>
            /\ shown' = ShownFor(data')
            /\ pc' = "done"
    /\ UNCHANGED <<script, config, group, error, consumed, message_count,
                   matches_found, heap, user_message_count,
                   user_latest_message, user_messages, auth_state, norm_state,
                   now, start_time, call_start, server_updates, posted,
                   all_messages, messages, processed_ids, last_update_id>>

\* elapsed = time.time() - start_time; progress_bar.progress(elapsed /
\* monitoring_time), which raises for a value outside [0.0, 1.0]; then
\* get_chat_updates is entered
ShowProgress ==
    /\ script = "live"
    /\ pc = "progress"
    /\ LET elapsed == now - start_time
       IN  /\ progress' = <<[num |-> elapsed, den |-> MonitoringTime]>>
           /\ IF elapsed > MonitoringTime
              THEN /\ pc' = "error"
                   /\ error' = "progress"
                   /\ UNCHANGED <<call_start, messages, processed_ids>>
              ELSE /\ pc' = "poll"
                   /\ call_start' = now
                   /\ messages' = <<>>
                   /\ processed_ids' = {}
                   /\ UNCHANGED error
    /\ UNCHANGED <<script, config, group, scan_state, output, auth_state,
                   norm_state, now, start_time, server_updates, posted,
                   all_messages, last_update_id>>

RECURSIVE Collect(_, _, _)
\* the for loop over the updates of one response: the messages and
\* processed_ids after it, starting from msgs and ids
Collect(updates, msgs, ids) ==
    IF updates = <<>> THEN [messages |-> msgs, processed_ids |-> ids]
    ELSE LET update == Head(updates)
             msg    == update.message
         IN  IF msg.text # <<>> /\ Str(msg.chat) = Str(group.id)
                /\ msg.message_id \notin ids
             THEN Collect(Tail(updates),
                          Append(msgs,
                                 [text |-> msg.text,
                                  username |->
                                      IF msg.from[1].username # <<>>
                                      THEN msg.from[1].username
                                      ELSE <<"U", "n", "k", "n", "o", "w", "n">>,
                                  date |-> msg.date,
                                  message_id |-> msg.message_id]),
                          ids \cup {msg.message_id})
             ELSE Collect(Tail(updates), msgs, ids)

live_fixed == <<script, config, group, output, error, consumed,
                message_count, heap, user_message_count, user_latest_message,
                user_messages, data, auth_state, norm_state>>

\* the condition of the loop of get_chat_updates fails: it returns, the
\* monitoring loop extends all_messages and counts the matches
PollReturn ==
    /\ script = "live"
    /\ pc = "poll"
    /\ ~ (now - call_start < PollTimeout)
    /\ all_messages' = all_messages \o messages
    /\ matches_found' =
           matches_found
           + Cardinality({i \in 1..Len(messages) : LiveMatch(messages[i].text)})
    /\ pc' = "monitor"
    /\ UNCHANGED <<live_fixed, now, start_time, call_start, server_updates,
                   posted, messages, processed_ids, last_update_id, progress>>

\* one getUpdates request of the loop: it raises (the bare except sleeps
\* and goes on), answers with another status than 200 (nothing is done),
\* or answers with the updates that are not confirmed yet
Poll(outcome) ==
    /\ script = "live"
    /\ pc = "poll"
    /\ now - call_start < PollTimeout
    /\ IF outcome = "ok"
       THEN LET updates   == server_updates
                collected == Collect(updates, messages, processed_ids)
            IN  /\ messages' = collected.messages
                /\ processed_ids' = collected.processed_ids
                /\ IF updates # <<>>
                   THEN /\ last_update_id' = updates[Len(updates)].update_id
                        /\ pc' = "confirm"
                   ELSE UNCHANGED <<last_update_id, pc>>
       ELSE UNCHANGED <<messages, processed_ids, last_update_id, pc>>
    /\ UNCHANGED <<live_fixed, matches_found, now, start_time, call_start,
                   server_updates, posted, all_messages, progress>>

\* the getUpdates request with offset = last_update_id + 1: Telegram drops
\* the updates below the offset, unless the request raises or is answered
\* with another status than 200
Confirm(outcome) ==
    /\ script = "live"
    /\ pc = "confirm"
    /\ server_updates' =
           IF outcome = "ok"
           THEN SelectSeq(server_updates,
                          LAMBDA u : u.update_id >= last_update_id + 1)
           ELSE server_updates
    /\ pc' = "poll"
    /\ UNCHANGED <<live_fixed, matches_found, now, start_time, call_start,
                   posted, all_messages, messages, processed_ids,
                   last_update_id, progress>>

\* Telegram: a message is posted in a chat of the bot
PostUpdate(m) ==
    /\ script = "live"
    /\ pc \in {"monitor", "progress", "poll", "confirm"}
    /\ posted < MaxUpdates
    /\ posted' = posted + 1
    /\ server_updates' =
           Append(server_updates,
                  [update_id |-> posted + 1,
                   message |-> [chat |-> m.chat, text |-> m.text,
                                from |-> m.from, date |-> posted + 1,
                                message_id |-> posted + 1]])
    /\ UNCHANGED <<live_fixed, pc, matches_found, now, start_time, call_start,
                   all_messages, messages, processed_ids, last_update_id,
                   progress>>

\* time passes
Tick ==
    /\ script = "live"
    /\ pc \in {"monitor", "progress", "poll", "confirm"}
    /\ now < MaxClock
    /\ now' = now + 1
    /\ UNCHANGED <<live_fixed, pc, matches_found, start_time, call_start,
                   server_updates, posted, all_messages, messages,
                   processed_ids, last_update_id, progress>>

RequestOutcomes == {"ok", "raised", "rejected"}

NextLive ==
    \/ \E link \in GroupLinks, kin \in LiveKeywordInputs, cs \in BOOLEAN :
          LiveStart(link, kin, cs)
    \/ JoinOk
    \/ JoinFail
    \/ MonitorCheck
    \/ ShowProgress
    \/ PollReturn
    \/ \E outcome \in RequestOutcomes : Poll(outcome)
    \/ \E outcome \in RequestOutcomes : Confirm(outcome)
    \/ \E m \in LiveUpdates : PostUpdate(m)
    \/ Tick

SpecLive == InitLive /\ [][NextLive]_vars

\* ------------------------------------------------------------------------
\* Notions the properties are stated in
\* ------------------------------------------------------------------------

\* the form in which the running script compares a text or a term
Canon(x) ==
    LET n == IF script = "app" THEN normalize_text(x) ELSE x
    IN  IF case_sensitive THEN n ELSE Lower(n)

\* some term of the list is a substring of the message text
ContainsTerm(msg, terms) ==
    \E i \in 1..Len(terms) : IsSubstring(Canon(terms[i]), Canon(msg.text))

\* the include/exclude policy
PolicyMatch(msg) ==
    ContainsTerm(msg, keywords) /\ ~ ContainsTerm(msg, exclude_keywords)

\* a message with a text and a sender that matches the policy
Recorded(msg) == msg.text # <<>> /\ msg.sender # <<>> /\ PolicyMatch(msg)

\* the positions in the stream of the recorded messages
RecordedSet == {n \in 1..Len(consumed) : Recorded(consumed[n])}

\* the positions of the recorded messages of author a
RecordedOf(a) == {n \in RecordedSet : consumed[n].sender[1].id = a}

\* the authors that have a recorded message
Authors == {consumed[n].sender[1].id : n \in RecordedSet}

\* message identifiers are distinct, so its link identifies the message a
\* row was built from
LinkOf(msg) == MsgLink(group, group_link, msg.id)

\* the rows built from the message
RowsOf(rows, msg) == {k \in 1..Len(rows) : rows[k][4] = LinkOf(msg)}

AppDone == script = "app" /\ pc = "done"

\* ------------------------------------------------------------------------
\* Properties
\* ------------------------------------------------------------------------

\* C1: in app.py a row exists only for a scanned message whose normalized
\* (and, unless case_sensitive, lower-cased) text contains an include term
\* and contains no exclude term, the terms being normalized the same way;
\* a message containing both never has a row.
C1_RowOnlyForPolicyMatch ==
    script = "app" =>
        /\ \A r \in 1..Len(heap) :
              \E n \in 1..Len(consumed) :
                  heap[r][4] = LinkOf(consumed[n]) /\ PolicyMatch(consumed[n])
        /\ \A k \in 1..Len(final_data) :
              \E n \in 1..Len(consumed) :
                  final_data[k][4] = LinkOf(consumed[n])
                  /\ PolicyMatch(consumed[n])

\* a finished scan with rows that has met a message containing an include
\* term and an exclude term
C1_Witness ==
    /\ AppDone
    /\ final_data # <<>>
    /\ \E n \in 1..Len(consumed) :
          /\ ContainsTerm(consumed[n], keywords)
          /\ ContainsTerm(consumed[n], exclude_keywords)
          /\ RowsOf(final_data, consumed[n]) = {}

\* C2 as stated: with allow_duplicates the number of output rows equals
\* the number of consumed records matching the include/exclude policy.
C2_RowPerPolicyMatch ==
    (AppDone /\ allow_duplicates) =>
        Len(final_data) =
            Cardinality({n \in 1..Len(consumed) : PolicyMatch(consumed[n])})

\* C2 amended: with allow_duplicates every consumed record that has a text
\* and a sender and matches the policy has exactly one output row, and no
\* other record has a row.
C2_RowPerRecordedMatch ==
    (AppDone /\ allow_duplicates) =>
        /\ Len(final_data) = Cardinality(RecordedSet)
        /\ \A n \in 1..Len(consumed) :
              Cardinality(RowsOf(final_data, consumed[n])) =
                  IF n \in RecordedSet THEN 1 ELSE 0

\* a finished scan that kept two rows of one author and skipped a
\* policy-matching message that has no sender
C2_Witness ==
    /\ AppDone /\ allow_duplicates
    /\ \E a \in Authors : Cardinality(RecordedOf(a)) >= 2
    /\ \E n \in 1..Len(consumed) :
          consumed[n].sender = <<>> /\ PolicyMatch(consumed[n])

\* C3: without allow_duplicates the output has exactly one row per author
\* with a matching record; it is built from a matching record of that
\* author with the latest timestamp, and its Total Messages is the number
\* of that author's matching records.
C3_LatestRowPerAuthor ==
    (AppDone /\ ~ allow_duplicates) =>
        /\ Len(final_data) = Cardinality(Authors)
        /\ \A a \in Authors :
              \E n \in RecordedOf(a) :
                  /\ \A m \in RecordedOf(a) :
                        consumed[m].date <= consumed[n].date
                  /\ Cardinality(RowsOf(final_data, consumed[n])) = 1
                  /\ \A k \in RowsOf(final_data, consumed[n]) :
                        /\ final_data[k][5] = MsgDate(consumed[n].date)
                        /\ final_data[k][7] = Cardinality(RecordedOf(a))
                  /\ \A m \in RecordedOf(a) \ {n} :
                        RowsOf(final_data, consumed[m]) = {}

\* a finished scan in which an author's later message arrived after an
\* earlier one, and another author's later message arrived first
C3_Witness ==
    /\ AppDone /\ ~ allow_duplicates
    /\ \E a \in Authors : \E n, m \in RecordedOf(a) :
          n < m /\ consumed[n].date < consumed[m].date
    /\ \E a \in Authors : \E n, m \in RecordedOf(a) :
          n < m /\ consumed[n].date > consumed[m].date

\* the matched keyword the claim describes: the first term, in the order
\* supplied, whose compared form is a substring of the compared text
FirstTermIn(msg) ==
    keywords[CHOOSE i \in 1..Len(keywords) :
                /\ IsSubstring(Canon(keywords[i]), Canon(msg.text))
                /\ \A j \in 1..(i - 1) :
                      ~ IsSubstring(Canon(keywords[j]), Canon(msg.text))]

\* the rows collected so far by the running script
CollectedRows == IF script = "app" THEN heap ELSE data

\* C4: the Matched Keyword of every row is the first include term, in the
\* order supplied, whose compared form occurs in the compared text, in its
\* supplied spelling.
C4_FirstTermInOrder ==
    \A r \in 1..Len(CollectedRows) :
        \E n \in 1..Len(consumed) :
            /\ CollectedRows[r][4] = LinkOf(consumed[n])
            /\ ContainsTerm(consumed[n], keywords)
            /\ CollectedRows[r][2] = FirstTermIn(consumed[n])

\* a row for the text "e b" under the terms b, e: both occur, e earlier in
\* the text, b earlier in the list
C4_Witness ==
    /\ keywords = << <<"b">>, <<"e">> >>
    /\ \E r \in 1..Len(CollectedRows) : \E n \in 1..Len(consumed) :
          /\ CollectedRows[r][4] = LinkOf(consumed[n])
          /\ consumed[n].text = TextEB
          /\ CollectedRows[r][2] = <<"b">>

\* what the running script takes for a match
ScriptMatch(msg) ==
    IF script = "app" THEN Recorded(msg)
    ELSE msg.text # <<>> /\ ContainsTerm(msg, keywords)

\* the scan was started and the run is over
RunEnded == pc \in {"done", "error"} /\ group # <<>>

\* the position in the stream of the message row k was built from
SrcIdx(rows, k) ==
    CHOOSE n \in 1..Len(consumed) : LinkOf(consumed[n]) = rows[k][4]

AuthorAt(n) == consumed[n].sender[1].id

\* the position of the first recorded message of author a
FirstOf(a) == CHOOSE n \in RecordedOf(a) : \A m \in RecordedOf(a) : n <= m

\* C5: when the message source fails after some records, the run still
\* ends with the result built from the matches among them: every match
\* seen has its row (its author's row without allow_duplicates).
C5_PartialResultsKept ==
    error \in {"scan", "stream"} =>
        /\ pc = "done"
        /\ \A n \in 1..Len(consumed) :
              ScriptMatch(consumed[n]) =>
                  IF script = "app" /\ ~ allow_duplicates
                  THEN \E m \in RecordedOf(AuthorAt(n)) :
                           RowsOf(final_data, consumed[m]) # {}
                  ELSE RowsOf(final_data, consumed[n]) # {}

\* C6: a stream that ends without a failure and in which no record matches
\* (an empty one included) ends the run with an empty result set, the
\* "no messages found" notice and no error, for both allow_duplicates.
C6_NoMatchEmptyResult ==
    (RunEnded /\ error \notin {"scan", "stream"}
        /\ \A n \in 1..Len(consumed) : ~ ScriptMatch(consumed[n])) =>
            /\ pc = "done"
            /\ error = "none"
            /\ final_data = <<>>
            /\ shown = "no_matches"

\* a finished run of app.py without allow_duplicates over a non-empty
\* stream with no match
C6_Witness ==
    /\ AppDone /\ ~ allow_duplicates
    /\ error = "none"
    /\ Len(consumed) >= 2
    /\ \A n \in 1..Len(consumed) : ~ ScriptMatch(consumed[n])
    /\ final_data = <<>>

\* C7: the output rows of two authors are in the order of the authors'
\* first matching records; two rows of one author (allow_duplicates only)
\* are in the order their messages were met.
C7_RowOrder ==
    AppDone =>
        \A k1, k2 \in 1..Len(final_data) :
            k1 < k2 =>
                LET n1 == SrcIdx(final_data, k1)
                    n2 == SrcIdx(final_data, k2)
                IN  IF AuthorAt(n1) = AuthorAt(n2)
                    THEN allow_duplicates /\ n1 < n2
                    ELSE FirstOf(AuthorAt(n1)) < FirstOf(AuthorAt(n2))

\* without allow_duplicates, the kept record of the first author was
\* replaced after the second author had been seen
C7_Witness ==
    /\ AppDone /\ ~ allow_duplicates
    /\ Len(final_data) = 2
    /\ \E n1, n2, n3 \in RecordedSet :
          /\ n1 < n2 /\ n2 < n3
          /\ AuthorAt(n1) = AuthorAt(n3)
          /\ AuthorAt(n1) # AuthorAt(n2)
          /\ consumed[n3].date > consumed[n1].date
          /\ RowsOf(final_data, consumed[n3]) # {}

\* C8: the columns are the six fixed ones, followed by Total Messages
\* exactly when allow_duplicates is off, and every output row has one
\* field per column (so the table is built without an error).
C8_ColumnSchema ==
    (script = "app" /\ RunEnded) =>
        /\ pc = "done"
        /\ error # "render"
        /\ SubSeq(columns, 1, 6) =
               <<"Username", "Matched Keyword", "Group Name", "Message Link",
                 "Date", "Message Preview">>
        /\ Len(columns) = IF allow_duplicates THEN 6 ELSE 7
        /\ (\E c \in 1..Len(columns) : columns[c] = "Total Messages")
               <=> ~ allow_duplicates
        /\ \A k \in 1..Len(final_data) : Len(final_data[k]) = Len(columns)

\* a table shown with allow_duplicates, where the seventh field of the
\* collected rows has to be left out
C8_Witness ==
    /\ AppDone /\ allow_duplicates
    /\ shown = "table"
    /\ Len(final_data) >= 2

\* C9 as stated: with allow_duplicates every output row reports the final
\* match count of its author.
C9_OutputRowsReportTotal ==
    (AppDone /\ allow_duplicates) =>
        \A k \in 1..Len(final_data) :
            /\ Len(final_data[k]) >= 7
            /\ final_data[k][7] =
                   Cardinality(RecordedOf(AuthorAt(SrcIdx(final_data, k))))

\* C9 amended: the seventh field of every collected row holds the
\* placeholder 0 during the scan and, with allow_duplicates, its author's
\* final match count after it; the output rows are the collected rows
\* without that field.
C9_TotalPatchedThenDropped ==
    /\ (script = "app" /\ pc = "scan") =>
           \A r \in 1..Len(heap) : heap[r][7] = 0
    /\ (AppDone /\ allow_duplicates) =>
           /\ \A i \in 1..Len(user_messages) :
                 \A j \in 1..Len(user_messages[i].v) :
                     heap[user_messages[i].v[j]][7] =
                         Cardinality(RecordedOf(user_messages[i].k))
           /\ Len(final_data) = Len(heap)
           /\ \A k \in 1..Len(final_data) :
                 /\ Len(final_data[k]) = 6
                 /\ \E r \in 1..Len(heap) :
                       final_data[k] = SubSeq(heap[r], 1, 6)

\* a finished scan with allow_duplicates in which one author has several
\* rows and another has one
C9_Witness ==
    /\ AppDone /\ allow_duplicates
    /\ \E a, b \in Authors :
          Cardinality(RecordedOf(a)) >= 2 /\ Cardinality(RecordedOf(b)) = 1

\* str.upper() on the letters of the model
Upper(s) ==
    [i \in 1..Len(s) |->
        CASE s[i] = "b"                   -> "B"
          [] s[i] = "e"                   -> "E"
          [] s[i] = "eacute"              -> "Eacute"
          [] s[i] \in {"sigma", "fsigma"} -> "SIGMA"
          [] OTHER                        -> s[i]]

\* the match decision of the running script for a text and term lists
Decision(text, kws, excl) ==
    /\ text # <<>>
    /\ IF script = "app"
       THEN /\ IncludeMatch(SearchText(text, case_sensitive),
                            KeywordsToCheck(kws, case_sensitive))
            /\ ~ ExcludeMatch(SearchText(text, case_sensitive),
                              ExcludeToCheck(excl, case_sensitive))
       ELSE IncludeMatch(HybridSearchText(text, case_sensitive),
                         HybridKeywordsToCheck(kws, case_sensitive))

\* the decision with text and terms compared as they are, apart from the
\* normalization of app.py
PlainDecision(text, kws, excl) ==
    LET form(x) == IF script = "app" THEN normalize_text(x) ELSE x
    IN  /\ text # <<>>
        /\ \E i \in 1..Len(kws) : IsSubstring(form(kws[i]), form(text))
        /\ ~ \E j \in 1..Len(excl) : IsSubstring(form(excl[j]), form(text))

\* C10: with case_sensitive off, the decision taken for a scanned message
\* is the decision for its text in capitals and the decision under the
\* terms in capitals; with case_sensitive on, it is the decision of the
\* comparison without case folding.
C10_CaseInsensitive ==
    \A n \in 1..Len(consumed) :
        consumed[n].sender # <<>> =>
            LET text    == consumed[n].text
                decided == RowsOf(CollectedRows, consumed[n]) # {}
            IN  IF case_sensitive
                THEN decided = PlainDecision(text, keywords, exclude_keywords)
                ELSE /\ decided = Decision(Upper(text), keywords,
                                           exclude_keywords)
                     /\ decided = Decision(text, Map(Upper, keywords),
                                           Map(Upper, exclude_keywords))

\* ------------------------------------------------------------------------
\* C11, C12: blank terms and empty term lists
\* ------------------------------------------------------------------------

\* the scan compares the terms with the text of this message
Compared(msg) == msg.text # <<>> /\ (script = "app" => msg.sender # <<>>)

\* the terms the scan compares with a message text
TermsCompared ==
    IF script = "app"
    THEN KeywordsToCheck(keywords, case_sensitive)
         \o ExcludeToCheck(exclude_keywords, case_sensitive)
    ELSE HybridKeywordsToCheck(keywords, case_sensitive)

\* C11: whatever the keyword input strings, every include or exclude term
\* that is compared with a message text is non-empty (and not only
\* whitespace) once trimmed and normalized
C11_NoBlankTerm ==
    \A n \in 1..Len(consumed) :
        Compared(consumed[n]) =>
            \A i \in 1..Len(TermsCompared) : Strip(TermsCompared[i]) # <<>>

\* C12: a run whose include-term list is empty after parsing is rejected
\* before the scan starts: no message is consumed with an empty list of
\* include terms
C12_EmptyIncludeRejected == message_count > 0 => keywords # <<>>

\* ------------------------------------------------------------------------
\* C14: the message link
\* ------------------------------------------------------------------------

\* the positions in the stream of the messages the running script matched
MatchPositions == {n \in 1..Len(consumed) : ScriptMatch(consumed[n])}

\* the position in the stream of the r-th matched message: rows are
\* collected in the order of the stream
NthMatch(r) ==
    CHOOSE n \in MatchPositions :
        Cardinality({m \in MatchPositions : m <= n}) = r

StartsWith(s, prefix) ==
    Len(s) >= Len(prefix) /\ SubSeq(s, 1, Len(prefix)) = prefix

\* "https://t.me/c/"
TMeC == <<"h", "t", "t", "p", "s", ":", "/", "/", "t", ".", "m", "e",
          "/", "c", "/">>

\* C14: the Message Link of every row is "https://t.me/c/" + str(group id)
\* without its first four characters + "/" + message id when str(group id)
\* starts with "-100", and else the group link as entered + "/" + message
\* id.
C14_LinkForm ==
    /\ Len(CollectedRows) = Cardinality(MatchPositions)
    /\ \A r \in 1..Len(CollectedRows) :
          LET gid  == Str(group.id)
              mid  == Str(consumed[NthMatch(r)].id)
              link == CollectedRows[r][4]
          IN  IF StartsWith(gid, <<"-", "1", "0", "0">>)
              THEN link = TMeC \o SubSeq(gid, 5, Len(gid)) \o <<"/">> \o mid
              ELSE link = group_link \o <<"/">> \o mid

\* in the supergroup -1005 the second message of the stream is the first
\* match and its row links to https://t.me/c/5/2
C14_Witness ==
    /\ group # <<>>
    /\ group.id = 0 - 1005
    /\ CollectedRows # <<>>
    /\ NthMatch(1) = 2
    /\ CollectedRows[1][4] = TMeC \o <<"5", "/", "2">>

\* ------------------------------------------------------------------------
\* C15, C16: the author handle and the message preview
\* ------------------------------------------------------------------------

\* the message the r-th collected row was built from
SourceOf(r) == consumed[NthMatch(r)]

\* the handle the claim describes for an author
ExpectedHandle(sender) ==
    <<"@">> \o (IF sender.username # <<>> THEN sender.username
                ELSE <<"I", "D", "_">> \o Str(sender.id))

\* C15: the Username of every row is "@" + the author's public username
\* when there is one and "@ID_" + the author's numeric id otherwise; it is
\* never empty, and two rows have the same handle only if their messages
\* have the same author.
C15_HandlePerAuthor ==
    /\ \A r \in 1..Len(CollectedRows) :
          /\ Len(CollectedRows[r][1]) > 1
          /\ SourceOf(r).sender # <<>> =>
                 CollectedRows[r][1] = ExpectedHandle(SourceOf(r).sender[1])
    /\ \A r1, r2 \in 1..Len(CollectedRows) :
          CollectedRows[r1][1] = CollectedRows[r2][1] =>
              SourceOf(r1).sender = SourceOf(r2).sender

\* the text with newlines and carriage returns replaced by spaces and the
\* characters above U+FFFF removed
Cleaned(text) ==
    SelectSeq([i \in 1..Len(text) |->
                  IF text[i] \in {"NL", "CR"} THEN " " ELSE text[i]],
              LAMBDA c : c # "emoji")

\* C16: the Message Preview of every row is the cleaned text when that has
\* at most 100 characters, and else its first 100 characters followed by
\* "..."; it never has more than 103 characters.
C16_PreviewForm ==
    \A r \in 1..Len(CollectedRows) :
        LET clean   == Cleaned(SourceOf(r).text)
            preview == CollectedRows[r][6]
        IN  /\ preview = IF Len(clean) > PreviewLimit
                         THEN SubSeq(clean, 1, PreviewLimit) \o Ellipsis
                         ELSE clean
            /\ Len(preview) <= PreviewLimit + Len(Ellipsis)

\* ------------------------------------------------------------------------
\* C19: the aggregation state of app.py
\* ------------------------------------------------------------------------

\* the keys of a dict
KeySet(d) == {d[i].k : i \in 1..Len(d)}

RECURSIVE SumValues(_)
\* sum(d.values())
SumValues(d) == IF d = <<>> THEN 0 ELSE Head(d).v + SumValues(Tail(d))

\* C19: in app.py, after every processed record, each author's
\* user_message_count is the number of rows in user_messages for that
\* author, the three per-author maps have the same authors, the counts add
\* up to matches_found, and matches_found <= message_count <=
\* message_limit.
C19_AggregationState ==
    script = "app" =>
        /\ \A i \in 1..Len(user_message_count) :
              /\ DictHas(user_messages, user_message_count[i].k)
              /\ user_message_count[i].v =
                     Len(DictGet(user_messages, user_message_count[i].k, <<>>))
        /\ KeySet(user_message_count) = KeySet(user_messages)
        /\ KeySet(user_messages) = KeySet(user_latest_message)
        /\ SumValues(user_message_count) = matches_found
        /\ matches_found <= message_count
        /\ message_count <= message_limit

\* a scan that has used up message_limit, skipped a record, and recorded
\* two matches of one author
C19_Witness ==
    /\ script = "app"
    /\ message_count = message_limit
    /\ matches_found = 2
    /\ matches_found < message_count
    /\ \E i \in 1..Len(user_message_count) : user_message_count[i].v = 2

\* ------------------------------------------------------------------------
\* C17, C18: normalize_text
\* ------------------------------------------------------------------------

\* C17: normalize_text is idempotent: normalizing the result of
\* normalize_text(x) returns that result, for every text x, bidi marks,
\* runs of whitespace and the empty text included.
C17_NormalizeIdempotent ==
    Len(norm_results) = 2 => norm_results[2] = norm_results[1]

\* a text with a bidi mark and a run of whitespace that normalize_text
\* changed into a non-empty text, normalized twice
C17_Witness ==
    /\ Len(norm_results) = 2
    /\ \E i \in 1..Len(norm_input) : norm_input[i] \in BidiMarks
    /\ \E i \in 1..(Len(norm_input) - 1) :
          norm_input[i] \in Whitespace /\ norm_input[i + 1] \in Whitespace
    /\ norm_results[1] # <<>>
    /\ norm_results[1] # norm_input

\* C18: the text normalize_text returns has no bidi mark (U+200E, U+200F,
\* U+202A..U+202E), no whitespace at its start or end, and no two
\* whitespace characters in a row.
C18_NormalizedForm ==
    Len(norm_results) >= 1 =>
        LET out == norm_results[1]
        IN  /\ \A i \in 1..Len(out) : out[i] \notin BidiMarks
            /\ out # <<>> =>
                   out[1] \notin Whitespace /\ out[Len(out)] \notin Whitespace
            /\ \A i \in 1..(Len(out) - 1) :
                   ~ (out[i] \in Whitespace /\ out[i + 1] \in Whitespace)

\* the result for a text of full length that starts with whitespace and
\* ends with a bidi mark, a letter of it kept
C18_Witness ==
    /\ Len(norm_results) >= 1
    /\ Len(norm_input) = MaxTextLen
    /\ norm_input[1] \in Whitespace
    /\ norm_input[Len(norm_input)] = "RLO"
    /\ \E i \in 1..Len(norm_results[1]) : norm_results[1][i] = "b"

\* ------------------------------------------------------------------------
\* C13, C20: the authentication section of app_hybrid.py
\* ------------------------------------------------------------------------

\* C13: every failure of a call to the message source is surfaced as an
\* error the user can tell from a normal outcome; none is swallowed.
C13_FailureSurfaced ==
    last_failure # "none" =>
        notice \in {"send_error", "verify_error", "exception"}

\* C20: when sign_in with the verification code reports that a 2FA
\* password is required, the user can complete the flow: going on with
\* the password leads to authenticated = true.
C20_PasswordFlowCompletes ==
    [](notice = "need_password" => <>session_state.authenticated)

\* ------------------------------------------------------------------------
\* C21: the session flags of app_hybrid.py
\* ------------------------------------------------------------------------

\* C21: in app_hybrid.py, whatever buttons are pressed in whatever order,
\* a scrape is started only while authenticated is true; authenticated
\* turns from false to true only in a step after which the session is
\* logged in at Telegram (the session check found it so, or sign_in
\* returned); awaiting_code turns true only in a step in which Telegram
\* sent a code, and while it is true phone_number is the number that code
\* was sent to.
C21_SessionFlags ==
    [][/\ (pc = "idle" /\ pc' # "idle") => session_state.authenticated
       /\ (~ session_state.authenticated /\ session_state'.authenticated) =>
              /\ session_authorized'
              /\ \/ ~ session_state.session_check_done
                 \/ session_state.awaiting_code /\ ~ two_factor
       /\ (~ session_state.awaiting_code /\ session_state'.awaiting_code) =>
              /\ notice' = "code_sent"
              /\ code_sent_to' = session_state'.phone_number
       /\ session_state'.awaiting_code =>
              /\ session_state'.phone_number # <<>>
              /\ session_state'.phone_number = code_sent_to'
      ]_vars

\* a scan running in a session that was signed in with a code sent to the
\* second number (awaiting_code is left set by the sign-in)
C21_Witness ==
    /\ script = "hybrid"
    /\ pc = "scan"
    /\ session_state.authenticated
    /\ session_state.phone_number = PhoneB
    /\ code_sent_to = PhoneB
    /\ session_state.awaiting_code


\* C22: over a whole monitoring session of live_scrap.py, whatever the
\* responses and the failures of the requests, no message of the target
\* chat is recorded twice: the message ids in all_messages are pairwise
\* distinct
C22_NoDuplicateMessages ==
    \A i, j \in 1..Len(all_messages) :
        i # j => all_messages[i].message_id # all_messages[j].message_id

\* C23: every value passed to the progress bar lies in [0, 1]; in
\* live_scrap.py the value is elapsed / monitoring_time, with the clock
\* read again after the condition of the loop
C23_ProgressInRange ==
    \A i \in 1..Len(progress) :
        /\ 0 <= progress[i].num
        /\ progress[i].num <= progress[i].den

====
